---- MODULE Spec2Model ----
(***************************************************************************)
(* Model of src/main.py (auto-generate-changelog).                         *)
(*                                                                         *)
(* A string is a sequence of tokens; the string it stands for is the       *)
(* concatenation of its tokens.  "NL" is a newline, "H2" is the text       *)
(* '## ', "H3" is '### ', "[" and "]" are the brackets, "..." is the       *)
(* three-dot ellipsis, " " is one blank; every other token is a piece of   *)
(* text without newline, bracket, blank or leading '#'.                    *)
(***************************************************************************)
EXTENDS Integers, Sequences, FiniteSets, TLC

(***************************************************************************)
(* Bounds of the model.                                                    *)
(***************************************************************************)
MaxReleases == 2
NumCommits == 4
MaxRuns == 2
MaxBodyLen == 2

(***************************************************************************)
(* Python string primitives on token sequences.                            *)
(***************************************************************************)
NL == "NL"

startswith(s, p) == Len(s) >= Len(p) /\ SubSeq(s, 1, Len(p)) = p

endswith(s, p) == Len(s) >= Len(p) /\ SubSeq(s, Len(s) - Len(p) + 1, Len(s)) = p

\* s[n:]
DropFirst(s, n) == SubSeq(s, n + 1, Len(s))

\* s[:-n], n > 0
DropLast(s, n) == SubSeq(s, 1, Len(s) - n)

\* s[-n:]
LastN(s, n) == IF Len(s) <= n THEN s ELSE SubSeq(s, Len(s) - n + 1, Len(s))

RECURSIVE lstrip(_, _)
lstrip(s, c) == IF s # <<>> /\ Head(s) = c THEN lstrip(Tail(s), c) ELSE s

RECURSIVE rstrip(_, _)
rstrip(s, c) ==
    IF s # <<>> /\ s[Len(s)] = c THEN rstrip(SubSeq(s, 1, Len(s) - 1), c) ELSE s

\* s.strip('\n')
strip(s) == rstrip(lstrip(s, NL), NL)

\* index of the first occurrence of sep in s at or after position i, 0 if none
RECURSIVE find(_, _, _)
find(s, sep, i) ==
    IF i + Len(sep) - 1 > Len(s) THEN 0
    ELSE IF SubSeq(s, i, i + Len(sep) - 1) = sep THEN i
    ELSE find(s, sep, i + 1)

\* s.split(sep): the list of the pieces of s between the occurrences of sep
RECURSIVE split(_, _)
split(s, sep) ==
    LET i == find(s, sep, 1)
    IN  IF i = 0 THEN <<s>>
        ELSE <<SubSeq(s, 1, i - 1)>> \o split(DropFirst(s, i + Len(sep) - 1), sep)

\* re.sub(r'  ', r' ', s): each pair of blanks, left to right, becomes one
RECURSIVE sub_double_space(_)
sub_double_space(s) ==
    IF Len(s) < 2 THEN s
    ELSE IF s[1] = " " /\ s[2] = " " THEN <<" ">> \o sub_double_space(DropFirst(s, 2))
    ELSE <<s[1]>> \o sub_double_space(Tail(s))

\* re.search(r'\[.*?\]', s) from position i: <<first, last>> of the match,
\* <<0, 0>> if there is none ('.' does not match a newline)
RECURSIVE close_bracket(_, _)
close_bracket(s, j) ==
    IF j > Len(s) \/ s[j] = NL THEN 0
    ELSE IF s[j] = "]" THEN j
    ELSE close_bracket(s, j + 1)

RECURSIVE search_bracket(_, _)
search_bracket(s, i) ==
    IF i > Len(s) THEN <<0, 0>>
    ELSE IF s[i] = "[" /\ close_bracket(s, i + 1) # 0
         THEN <<i, close_bracket(s, i + 1)>>
    ELSE search_bracket(s, i + 1)

\* concatenation of a sequence of strings
RECURSIVE concat(_)
concat(ss) == IF ss = <<>> THEN <<>> ELSE Head(ss) \o concat(Tail(ss))

(***************************************************************************)
(* Fixed texts and configuration of the modelled run.                      *)
(***************************************************************************)
BEGIN_CHANGELOG_TITLE == <<"# CHANGELOG">>

END_CHANGELOG_SIGNATURE == <<"SIGNATURE">>

\* TYPE input, already split at ',' and ':' (main, generate_release_body)
part_name == << <<"feat", <<"Feature">> >>, <<"docs", <<"Documentation">> >> >>

default_scope == <<"general">>

replace_empty_release_info == <<"No description">>

(***************************************************************************)
(* get_release_content: the head of one commit message.                    *)
(***************************************************************************)
splice_head(message) ==
    LET paragraphs == split(message, <<NL, NL>>)
        head == paragraphs[1]
    IN  IF LastN(head, 1) = <<"...">> /\ Len(paragraphs) > 1
            /\ startswith(paragraphs[2], <<"...">>)
        THEN sub_double_space(DropLast(head, 1) \o <<" ">>
                 \o DropFirst(split(paragraphs[2], <<NL>>)[1], 1))
        ELSE head

(***************************************************************************)
(* strip_commits: '^' + type + '(?:[(](.+?)[)])?' on a head.               *)
(***************************************************************************)
RECURSIVE close_paren(_, _)
close_paren(s, j) ==
    IF j > Len(s) \/ s[j] = NL THEN 0
    ELSE IF s[j] = ")" THEN j
    ELSE close_paren(s, j + 1)

\* re.match(regex, head)
type_match(type_regex, head) == Len(head) >= 1 /\ head[1] = type_regex

\* position of the ')' that closes the scope group, 0 if the group is absent
\* ('.+?' needs one character at least, so the search starts two tokens on)
scope_end(head) ==
    IF Len(head) >= 2 /\ head[2] = "(" THEN close_paren(head, 4) ELSE 0

\* re.findall(regex, head)[0]
scope_of(head) ==
    IF scope_end(head) = 0 THEN <<>> ELSE SubSeq(head, 3, scope_end(head) - 1)

is_space(c) == c \in {" ", NL}

\* end of regex + r'\s?:\s?' matched from the token after position k,
\* 0 if it does not match there
colon_end(head, k) ==
    LET a == IF k + 1 <= Len(head) /\ is_space(head[k + 1]) THEN k + 1 ELSE k
        b == IF a + 1 <= Len(head) /\ head[a + 1] = ":" THEN a + 1 ELSE 0
        c == IF b # 0 /\ b + 1 <= Len(head) /\ is_space(head[b + 1]) THEN b + 1 ELSE b
        \* '\s?' gives the blank back when the colon does not follow it
        b0 == IF k + 1 <= Len(head) /\ head[k + 1] = ":" THEN k + 1 ELSE 0
        c0 == IF b0 # 0 /\ b0 + 1 <= Len(head) /\ is_space(head[b0 + 1])
              THEN b0 + 1 ELSE b0
    IN  IF b # 0 THEN c ELSE c0

\* re.sub(regex + r'\s?:\s?', '', head)
subject_of(head) ==
    LET withScope == IF scope_end(head) = 0 THEN 0 ELSE colon_end(head, scope_end(head))
        without == colon_end(head, 1)
        e == IF withScope # 0 THEN withScope ELSE without
    IN  IF e = 0 THEN head ELSE DropFirst(head, e)

\* str.lower() on the scopes the model uses
lower(s) == [i \in 1..Len(s) |-> IF s[i] = "Changelog" THEN "changelog" ELSE s[i]]

\* index of scope in the ordered dict scopes, 0 if absent
RECURSIVE scope_index(_, _, _)
scope_index(scopes, scope, i) ==
    IF i > Len(scopes) THEN 0
    ELSE IF scopes[i].scope = scope THEN i
    ELSE scope_index(scopes, scope, i + 1)

RECURSIVE strip_commits_from(_, _, _, _, _)
strip_commits_from(commits, type_regex, dscope, suppress, scopes) ==
    IF commits = <<>> THEN scopes
    ELSE
      LET commit == Head(commits)
          head == commit.head
          rest == Tail(commits)
          found == scope_of(head)
          scope == IF found = <<>> THEN dscope ELSE found
          entry == [subject |-> subject_of(head), commit |-> commit]
          at == scope_index(scopes, scope, 1)
      IN  IF ~type_match(type_regex, head)
            THEN strip_commits_from(rest, type_regex, dscope, suppress, scopes)
          ELSE IF found = <<>> /\ suppress
            THEN strip_commits_from(rest, type_regex, dscope, suppress, scopes)
          ELSE IF lower(scope) = <<"changelog">> /\ type_regex = "docs"
            THEN strip_commits_from(rest, type_regex, dscope, suppress, scopes)
          ELSE IF at # 0
            THEN strip_commits_from(rest, type_regex, dscope, suppress,
                   [scopes EXCEPT ![at].items = Append(@, entry)])
          ELSE strip_commits_from(rest, type_regex, dscope, suppress,
                   Append(scopes, [scope |-> scope, items |-> <<entry>>]))

strip_commits(commits, type_regex, dscope, suppress) ==
    strip_commits_from(commits, type_regex, dscope, suppress, <<>>)

(***************************************************************************)
(* generate_section, generate_release_body                                 *)
(***************************************************************************)
RECURSIVE scope_items(_)
scope_items(items) ==
    IF items = <<>> THEN <<>>
    ELSE LET commit == Head(items).commit
         IN  <<"  - ">> \o Head(items).subject
               \o <<" (", "[", commit.sha, "]", "(commit_url))">>
               \o concat(commit.pr_links) \o <<NL>>
               \o scope_items(Tail(items))

RECURSIVE section_of(_)
section_of(scopes) ==
    IF scopes = <<>> THEN <<>>
    ELSE <<"- ">> \o Head(scopes).scope \o <<":", NL>>
           \o scope_items(Head(scopes).items) \o <<NL>>
           \o section_of(Tail(scopes))

generate_section(release_commits, regex, dscope, suppress) ==
    section_of(strip_commits(release_commits, regex, dscope, suppress))

RECURSIVE generate_release_body(_, _, _, _)
generate_release_body(release_commits, parts, dscope, suppress) ==
    IF parts = <<>> THEN <<>>
    ELSE LET sec == generate_section(release_commits, Head(parts)[1], dscope, suppress)
             this == IF sec # <<>>
                     THEN <<"H3">> \o Head(parts)[2] \o <<NL, NL>> \o sec
                     ELSE <<>>
         IN  this \o generate_release_body(release_commits, Tail(parts), dscope, suppress)

(***************************************************************************)
(* generate_release_changelog                                              *)
(***************************************************************************)
\* re.split of the body at the regions "HB" ... "HE" (the HIDE IN CHANGELOG
\* markers), the shortest region first
RECURSIVE hide_split(_)
hide_split(s) ==
    LET i == find(s, <<"HB">>, 1)
        j == IF i = 0 THEN 0 ELSE find(s, <<"HE">>, i + 1)
    IN  IF j = 0 THEN <<s>>
        ELSE <<SubSeq(s, 1, i - 1)>> \o hide_split(DropFirst(s, j))

\* one round of the loop over origin_desc; its three branches strip the
\* newlines of elem on one side or both before the test for '' and are then
\* followed by para.strip('\n'), so they agree
RECURSIVE join_description(_, _)
join_description(origin_desc, description) ==
    IF origin_desc = <<>> THEN description
    ELSE LET para == strip(Head(origin_desc))
         IN  IF para = <<>> THEN join_description(Tail(origin_desc), description)
             ELSE IF description = <<>> THEN join_description(Tail(origin_desc), para)
             ELSE join_description(Tail(origin_desc),
                                   strip(description) \o <<NL, NL>> \o para)

description_of(body) ==
    LET origin_desc == hide_split(body)
        description == IF Len(origin_desc) = 1 THEN origin_desc[1]
                       ELSE join_description(origin_desc, <<>>)
    IN  strip(IF description = <<>> THEN replace_empty_release_info ELSE description)

release_info_of(meta_data, release_tag) ==
    IF release_tag = "Unreleased"
    THEN <<"H2", "Unreleased", NL, NL>> \o replace_empty_release_info
    ELSE <<"H2", "[", release_tag, "]", "(html_url)", " - ", "created_at", NL, NL>>
           \o description_of(meta_data.body)

generate_release_changelog(meta_data, release_commits, release_tag, suppress) ==
    LET release_info == release_info_of(meta_data, release_tag)
        release_body == generate_release_body(release_commits, part_name,
                                              default_scope, suppress)
    IN  IF release_body = <<>> /\ release_tag = "Unreleased" THEN <<>>
        ELSE strip(release_info) \o <<NL, NL>> \o strip(release_body)

(***************************************************************************)
(* analyze_changelog, assemble_changelog                                   *)
(***************************************************************************)
\* the dict d with d[key] = value
dict_set(d, key, value) ==
    [k \in DOMAIN d \cup {key} |-> IF k = key THEN value ELSE d[k]]

EmptyDict == [k \in {} |-> <<>>]

\* the loop over body_content.split('\n\n## ')
RECURSIVE analyze_parts(_, _)
analyze_parts(parts, in_changelog) ==
    IF parts = <<>> THEN in_changelog
    ELSE LET release_body == Head(parts)
             search_res == search_bracket(release_body, 1)
             release_tag == SubSeq(release_body, search_res[1] + 1, search_res[2] - 1)
         IN  IF startswith(release_body, <<"Unreleased">>) \/ release_body = <<>>
               THEN analyze_parts(Tail(parts), in_changelog)
             ELSE IF search_res[1] = 0
               THEN analyze_parts(Tail(parts), in_changelog)
             ELSE analyze_parts(Tail(parts),
                    dict_set(in_changelog, release_tag, <<"H2">> \o strip(release_body)))

\* the title and the signature are not asked for
analyze_changelog_any_envelope(doc, in_changelog) ==
    analyze_parts(split(doc, <<NL, NL, "H2">>), in_changelog)

analyze_changelog(doc, in_changelog) ==
    LET tail == END_CHANGELOG_SIGNATURE \o <<NL>>
        wellformed == startswith(doc, BEGIN_CHANGELOG_TITLE) /\ endswith(doc, tail)
        body_content == IF wellformed
                        THEN SubSeq(doc, Len(BEGIN_CHANGELOG_TITLE) + 1, Len(doc) - Len(tail))
                        ELSE <<>>
    IN  IF ~wellformed /\ doc # <<>> THEN in_changelog
        ELSE analyze_parts(split(body_content, <<NL, NL, "H2">>), in_changelog)

\* the loop over self.releases.values()
RECURSIVE assemble_blocks(_)
assemble_blocks(rels) ==
    IF rels = <<>> THEN <<>>
    ELSE (IF Head(rels).content # <<>>
          THEN <<NL, NL>> \o strip(Head(rels).content) ELSE <<>>)
         \o assemble_blocks(Tail(rels))

assemble_changelog(rels) ==
    BEGIN_CHANGELOG_TITLE \o assemble_blocks(rels)
        \o <<NL, NL>> \o END_CHANGELOG_SIGNATURE \o <<NL>>

(***************************************************************************)
(* The repository the run works on: what the GitHub API returns.           *)
(***************************************************************************)
TagNames == <<"v1", "v2", "v3", "v4">>

ShaNames == <<"c1", "c2", "c3", "c4", "c5">>

\* release descriptions: a heading, nothing, a hidden region before a text
Bodies == << <<"H2", "Notes">>, <<>>, <<"HB", "internal", "HE", NL, "Fixes">> >>

\* commit messages, by age
Messages ==
    << <<"feat", "(", "core", ")", ":", " ", "add">>,
       <<"chore", ":", " ", "tidy">>,
       <<"feat", ":", " ", "long", " ", "subject", " ", "...", NL, NL,
         "...", "continues", NL, "more">>,
       <<"docs", "(", "Changelog", ")", ":", " ", "update">> >>

\* repo.get_commits(), most recent first
github_commits ==
    [i \in 1..NumCommits |->
        [sha |-> ShaNames[NumCommits - i + 1],
         message |-> Messages[((NumCommits - i) % 4) + 1]]]

\* commit.get_pulls(), rendered as in get_release_content
pr_links_of(sha) ==
    IF sha = "c1" THEN << <<" (", "[", "#7", "]", "(pull_url))">> >> ELSE <<>>

\* repo.get_releases() for n releases, most recent first
releases_of(n, body_offset) ==
    [i \in 1..n |-> [tag_name |-> TagNames[n - i + 1],
                     body |-> Bodies[((i + body_offset) % 3) + 1]]]

tag_names(rels) == {rels[i].tag_name : i \in 1..Len(rels)}

\* the commits a tag can point to
TagShas == {github_commits[i].sha : i \in 1..NumCommits}

\* changelog files a former run or a user may have left
stale_block(tag) ==
    <<"H2", "[", tag, "]", "(html_url)", " - ", "created_at", NL, NL, "old text">>

RECURSIVE stale_blocks(_)
stale_blocks(rels) ==
    IF rels = <<>> THEN <<>>
    ELSE <<NL, NL>> \o stale_block(Head(rels).tag_name) \o stale_blocks(Tail(rels))

stale_body(rels) ==
    <<NL, NL, "H2", "Unreleased", NL, NL, "old unreleased">> \o stale_blocks(rels)
        \o <<NL, NL, "H2", "handwritten part">>

stale_doc(rels) ==
    BEGIN_CHANGELOG_TITLE \o stale_body(rels)
        \o <<NL, NL>> \o END_CHANGELOG_SIGNATURE \o <<NL>>

\* a changelog with a block for every release and nothing else
clean_doc(rels) ==
    BEGIN_CHANGELOG_TITLE \o stale_blocks(rels)
        \o <<NL, NL>> \o END_CHANGELOG_SIGNATURE \o <<NL>>

NoFile == [exists |-> FALSE, content |-> <<>>]

File(doc) == [exists |-> TRUE, content |-> doc]

PriorFiles(rels) ==
    { NoFile,
      File(<<>>),
      File(clean_doc(rels)),
      File(stale_doc(IF rels = <<>> THEN rels ELSE Tail(rels))),
      \* no signature at the end
      File(BEGIN_CHANGELOG_TITLE \o stale_body(rels)),
      \* no title at the start
      File(stale_body(rels) \o <<NL, NL>> \o END_CHANGELOG_SIGNATURE \o <<NL>>) }

(***************************************************************************)
(* State.                                                                  *)
(***************************************************************************)
\* the repository: api_releases, tags_sha, remote_file;
\* the inputs of main: regenerate_count, unreleased_commits, pull_request,
\* suppress_unscoped;
\* the fields of GithubChangelog: changelog, file_exists,
\* release_in_changelog, releases;
\* the locals of get_data: regenerate_releases, cur_release,
\* selected_commits, pos (the place in the commit list), status_code;
\* where the run is (pc), and which run it is (run);
\* history: the API and render calls of this run (calls), the list of the
\* releases to regenerate as first built (eligible_at_start), the commits
\* each release was rendered from (rendered_from), how the write ended
\* (written), and how the former run ended (prev_run);
\* the commit message and its classification, in the classification runs.
VARIABLES api_releases, tags_sha, remote_file,
          regenerate_count, unreleased_commits, pull_request, suppress_unscoped,
          changelog, file_exists, release_in_changelog, releases,
          regenerate_releases, cur_release, selected_commits, pos, status_code,
          pc, run,
          calls, eligible_at_start, rendered_from, written, prev_run,
          message, classified

repo_vars == <<api_releases, tags_sha, regenerate_count, unreleased_commits,
               pull_request, suppress_unscoped>>

object_vars == <<changelog, file_exists, release_in_changelog, releases>>

walk_vars == <<regenerate_releases, cur_release, selected_commits, pos, status_code>>

splice_vars == <<message, classified>>

vars == <<repo_vars, remote_file, object_vars, walk_vars, pc, run,
          calls, eligible_at_start, rendered_from, written, prev_run, splice_vars>>

\* main, lines 649-671, and GithubChangelog.__init__, lines 147-161
Init ==
    /\ \E n \in 0..MaxReleases, body_offset \in 0..2 :
          api_releases = releases_of(n, body_offset)
    /\ \E D \in SUBSET tag_names(api_releases) : tags_sha \in [D -> TagShas]
    /\ remote_file \in PriorFiles(api_releases)
    /\ regenerate_count \in -1..(MaxReleases - 1)
    /\ unreleased_commits \in BOOLEAN
    /\ pull_request \in {"", "main"}
    /\ suppress_unscoped = FALSE
    /\ changelog = <<>>
    /\ file_exists = FALSE
    /\ release_in_changelog = EmptyDict
    /\ releases = <<>>
    /\ regenerate_releases = <<>>
    /\ cur_release = "Unreleased"
    /\ selected_commits = <<>>
    /\ pos = 1
    /\ status_code = 0
    /\ pc = "get_exist_changelog"
    /\ calls = <<>>
    /\ eligible_at_start = <<>>
    /\ rendered_from = EmptyDict
    /\ written = "no"
    /\ run = 1
    /\ prev_run = [written |-> "no", failed |-> FALSE]
    /\ message = <<>>
    /\ classified = <<>>

(***************************************************************************)
(* Helpers of get_data.                                                    *)
(***************************************************************************)
in_list(x, list) == \E i \in 1..Len(list) : list[i] = x

\* list.remove(x): without the first occurrence of x
RECURSIVE remove(_, _)
remove(list, x) ==
    IF list = <<>> THEN <<>>
    ELSE IF Head(list) = x THEN Tail(list)
    ELSE <<Head(list)>> \o remove(Tail(list), x)

Min(a, b) == IF a < b THEN a ELSE b

\* the releases the changelog lacks are not added
append_absent_never(rels, in_changelog, regen) == regen

\* lines 179-188: the releases to regenerate
RECURSIVE append_absent(_, _, _)
append_absent(rels, in_changelog, regen) ==
    IF rels = <<>> THEN regen
    ELSE LET tag == Head(rels).tag_name
         IN  IF <<tag>> \notin DOMAIN in_changelog /\ ~in_list(tag, regen)
             THEN append_absent(Tail(rels), in_changelog, Append(regen, tag))
             ELSE append_absent(Tail(rels), in_changelog, regen)

build_regenerate_releases(rels, in_changelog, count, unreleased) ==
    LET all == [i \in 1..Len(rels) |-> rels[i].tag_name]
        recent == IF count < 0 THEN all ELSE SubSeq(all, 1, Min(count, Len(all)))
        regen == append_absent(rels, in_changelog, recent)
    IN  IF unreleased THEN Append(regen, "Unreleased") ELSE regen

\* a release whose tag is gone is given the oldest commit as its tag commit
build_releases_deleted_tag_on_commit(rels, tags, in_changelog, regen, unreleased) ==
    (IF unreleased
     THEN << [tag |-> "Unreleased", body |-> <<>>, commit_sha |-> "", content |-> <<>>] >>
     ELSE <<>>)
    \o [i \in 1..Len(rels) |->
          LET tag == rels[i].tag_name
          IN  [tag |-> tag,
               body |-> strip(rels[i].body),
               commit_sha |-> IF tag \in DOMAIN tags THEN tags[tag] ELSE "c1",
               content |-> IF <<tag>> \in DOMAIN in_changelog /\ ~in_list(tag, regen)
                           THEN in_changelog[<<tag>>] ELSE <<>>]]

\* the block of the former changelog is not taken over
build_releases_without_reuse(rels, tags, in_changelog, regen, unreleased) ==
    (IF unreleased
     THEN << [tag |-> "Unreleased", body |-> <<>>, commit_sha |-> "", content |-> <<>>] >>
     ELSE <<>>)
    \o [i \in 1..Len(rels) |->
          [tag |-> rels[i].tag_name,
           body |-> strip(rels[i].body),
           commit_sha |-> IF rels[i].tag_name \in DOMAIN tags
                          THEN tags[rels[i].tag_name] ELSE "",
           content |-> <<>>]]

\* lines 189-215: self.releases, in the order of the dict
build_releases(rels, tags, in_changelog, regen, unreleased) ==
    (IF unreleased
     THEN << [tag |-> "Unreleased", body |-> <<>>, commit_sha |-> "", content |-> <<>>] >>
     ELSE <<>>)
    \o [i \in 1..Len(rels) |->
          LET tag == rels[i].tag_name
          IN  [tag |-> tag,
               body |-> strip(rels[i].body),
               commit_sha |-> IF tag \in DOMAIN tags THEN tags[tag] ELSE "",
               content |-> IF <<tag>> \in DOMAIN in_changelog /\ ~in_list(tag, regen)
                           THEN in_changelog[<<tag>>] ELSE <<>>]]

\* self.releases[tag]
release_at(rels, tag) == CHOOSE i \in 1..Len(rels) : rels[i].tag = tag

\* lines 216-219: commit.sha in release_commit_sha_list
is_boundary(rels, sha) == \E i \in 1..Len(rels) : rels[i].commit_sha = sha

\* the first release of the dict with that sha
sha_owner_first(rels, sha) ==
    LET first == CHOOSE i \in 1..Len(rels) :
                    /\ rels[i].commit_sha = sha
                    /\ \A j \in 1..(i - 1) : rels[j].commit_sha # sha
    IN  rels[first].tag

\* release_commit_sha_list[sha]: the last release of the dict with that sha
sha_owner(rels, sha) ==
    LET last == CHOOSE i \in 1..Len(rels) :
                   /\ rels[i].commit_sha = sha
                   /\ \A j \in (i + 1)..Len(rels) : rels[j].commit_sha # sha
    IN  rels[last].tag

\* get_release_content, lines 348-371: one processed commit
processed(commit) ==
    [head |-> splice_head(commit.message), sha |-> commit.sha,
     pr_links |-> pr_links_of(commit.sha)]

\* the calls get_release_content makes when get_pulls raises at the commit
\* fail_at (0: it does not raise)
content_calls(tag, commits, fail_at) ==
    << <<"get_release_content", tag>> >>
    \o [i \in 1..(IF fail_at = 0 THEN Len(commits) ELSE fail_at) |->
          <<"get_pulls", commits[i].sha>>]

\* get_release_content, lines 384-389
get_release_content(rels, tag, commits, suppress) ==
    generate_release_changelog(rels[release_at(rels, tag)],
                               [i \in 1..Len(commits) |-> processed(commits[i])],
                               tag, suppress)

set_content(rels, tag, content) ==
    [rels EXCEPT ![release_at(rels, tag)].content = content]

\* the status code of the GithubException that get_pulls raises (lines 373-382
\* treat every code alike)
FailureCodes == {403}

(***************************************************************************)
(* get_exist_changelog, lines 264-283                                      *)
(***************************************************************************)
get_exist_changelog ==
    /\ pc = "get_exist_changelog"
    /\ calls' = Append(calls, <<"get_contents", "">>)
    /\ IF remote_file.exists
       THEN /\ file_exists' = TRUE
            /\ changelog' = remote_file.content
            /\ release_in_changelog' =
                   analyze_changelog(remote_file.content, release_in_changelog)
       ELSE /\ changelog' = <<>>
            /\ UNCHANGED <<file_exists, release_in_changelog>>
    /\ pc' = "get_releases"
    /\ UNCHANGED <<repo_vars, remote_file, releases, walk_vars, run,
                   eligible_at_start, rendered_from, written, prev_run, splice_vars>>

\* lines 271-275: an error other than 404 is raised again
get_exist_changelog_raises ==
    /\ pc = "get_exist_changelog"
    /\ calls' = Append(calls, <<"get_contents", "">>)
    /\ pc' = "raised"
    /\ UNCHANGED <<repo_vars, remote_file, object_vars, walk_vars, run,
                   eligible_at_start, rendered_from, written, prev_run, splice_vars>>

(***************************************************************************)
(* get_data, lines 178-224: releases, tags, commits                        *)
(***************************************************************************)
get_releases ==
    /\ pc = "get_releases"
    /\ LET regen == build_regenerate_releases(api_releases, release_in_changelog,
                                              regenerate_count, unreleased_commits)
       IN  /\ regenerate_releases' = regen
           /\ eligible_at_start' = regen
           /\ releases' = build_releases(api_releases, tags_sha, release_in_changelog,
                                         regen, unreleased_commits)
           /\ pc' = IF Len(regen) > 0 THEN "walk" ELSE "final"
    /\ cur_release' = "Unreleased"
    /\ selected_commits' = <<>>
    /\ pos' = 1
    /\ calls' = calls \o << <<"get_releases", "">>, <<"get_tags", "">>,
                            <<"get_commits", "">> >>
    /\ UNCHANGED <<repo_vars, remote_file, changelog, file_exists, release_in_changelog,
                   status_code, run, rendered_from, written, prev_run, splice_vars>>

(***************************************************************************)
(* get_data, lines 225-249: one round of the loop over the commits         *)
(***************************************************************************)
shas_of(commits) == [i \in 1..Len(commits) |-> commits[i].sha]

\* the boundary commit is left out of the bucket it opens
new_bucket_without_boundary(commit) == <<>>

\* line 247: the boundary commit opens the next bucket
new_bucket(commit) == <<commit>>

\* the loop goes on with the next commit, or ends after the last one
next_commit ==
    /\ pos' = pos + 1
    /\ pc' = IF pos + 1 > Len(github_commits) THEN "final" ELSE "walk"

\* lines 248-249
walk_append ==
    /\ pc = "walk"
    /\ ~is_boundary(releases, github_commits[pos].sha)
    /\ selected_commits' = Append(selected_commits, github_commits[pos])
    /\ next_commit
    /\ UNCHANGED <<repo_vars, remote_file, object_vars, regenerate_releases, cur_release,
                   status_code, run, calls, eligible_at_start, rendered_from, written,
                   prev_run, splice_vars>>

\* lines 245-247
walk_boundary_skip ==
    /\ pc = "walk"
    /\ is_boundary(releases, github_commits[pos].sha)
    /\ ~in_list(cur_release, regenerate_releases)
    /\ cur_release' = sha_owner(releases, github_commits[pos].sha)
    /\ selected_commits' = new_bucket(github_commits[pos])
    /\ next_commit
    /\ UNCHANGED <<repo_vars, remote_file, object_vars, regenerate_releases,
                   status_code, run, calls, eligible_at_start, rendered_from, written,
                   prev_run, splice_vars>>

\* the loop goes on when no release is left to regenerate
walk_boundary_render_without_break ==
    /\ pc = "walk"
    /\ is_boundary(releases, github_commits[pos].sha)
    /\ in_list(cur_release, regenerate_releases)
    /\ calls' = calls \o content_calls(cur_release, selected_commits, 0)
    /\ status_code' = 0
    /\ rendered_from' = dict_set(rendered_from, cur_release, shas_of(selected_commits))
    /\ releases' = set_content(releases, cur_release,
                       get_release_content(releases, cur_release, selected_commits,
                                           suppress_unscoped))
    /\ regenerate_releases' = remove(regenerate_releases, cur_release)
    /\ cur_release' = sha_owner(releases, github_commits[pos].sha)
    /\ selected_commits' = new_bucket(github_commits[pos])
    /\ next_commit
    /\ UNCHANGED <<repo_vars, remote_file, changelog, file_exists, release_in_changelog,
                   run, eligible_at_start, written, prev_run, splice_vars>>

\* lines 228-230, 237-244, 247
walk_boundary_render ==
    /\ pc = "walk"
    /\ is_boundary(releases, github_commits[pos].sha)
    /\ in_list(cur_release, regenerate_releases)
    /\ calls' = calls \o content_calls(cur_release, selected_commits, 0)
    /\ status_code' = 0
    /\ rendered_from' = dict_set(rendered_from, cur_release, shas_of(selected_commits))
    /\ releases' = set_content(releases, cur_release,
                       get_release_content(releases, cur_release, selected_commits,
                                           suppress_unscoped))
    /\ regenerate_releases' = remove(regenerate_releases, cur_release)
    /\ cur_release' = sha_owner(releases, github_commits[pos].sha)
    /\ IF Len(regenerate_releases') <= 0
       THEN /\ selected_commits' = <<>>
            /\ pc' = "final"
            /\ pos' = pos
       ELSE /\ selected_commits' = new_bucket(github_commits[pos])
            /\ next_commit
    /\ UNCHANGED <<repo_vars, remote_file, changelog, file_exists, release_in_changelog,
                   run, eligible_at_start, written, prev_run, splice_vars>>

\* the bucket is kept when the rendering fails
walk_boundary_render_fails_keeps_bucket ==
    /\ pc = "walk"
    /\ is_boundary(releases, github_commits[pos].sha)
    /\ in_list(cur_release, regenerate_releases)
    /\ \E fail_at \in 1..Len(selected_commits), code \in FailureCodes :
          /\ calls' = calls \o content_calls(cur_release, selected_commits, fail_at)
          /\ status_code' = code
    /\ pc' = "final"
    /\ UNCHANGED <<repo_vars, remote_file, object_vars, regenerate_releases, cur_release,
                   selected_commits, pos, run, eligible_at_start, rendered_from, written,
                   prev_run, splice_vars>>

\* lines 228-236, with get_release_content lines 372-382
walk_boundary_render_fails ==
    /\ pc = "walk"
    /\ is_boundary(releases, github_commits[pos].sha)
    /\ in_list(cur_release, regenerate_releases)
    /\ \E fail_at \in 1..Len(selected_commits), code \in FailureCodes :
          /\ calls' = calls \o content_calls(cur_release, selected_commits, fail_at)
          /\ status_code' = code
    /\ selected_commits' = <<>>
    /\ pc' = "final"
    /\ UNCHANGED <<repo_vars, remote_file, object_vars, regenerate_releases, cur_release,
                   pos, run, eligible_at_start, rendered_from, written, prev_run,
                   splice_vars>>

(***************************************************************************)
(* get_data, lines 250-262: the bucket that is open after the loop         *)
(***************************************************************************)
\* the bucket that is open after the loop is not rendered
final_render_left_out ==
    /\ pc = "final"
    /\ Len(selected_commits) > 0 /\ in_list(cur_release, regenerate_releases)
    /\ pc' = "write_data"
    /\ UNCHANGED <<repo_vars, remote_file, object_vars, walk_vars, run, calls,
                   eligible_at_start, rendered_from, written, prev_run, splice_vars>>

\* lines 250-253, 258-260
final_render ==
    /\ pc = "final"
    /\ Len(selected_commits) > 0 /\ in_list(cur_release, regenerate_releases)
    /\ calls' = calls \o content_calls(cur_release, selected_commits, 0)
    /\ status_code' = 0
    /\ rendered_from' = dict_set(rendered_from, cur_release, shas_of(selected_commits))
    /\ releases' = set_content(releases, cur_release,
                       get_release_content(releases, cur_release, selected_commits,
                                           suppress_unscoped))
    /\ regenerate_releases' = remove(regenerate_releases, cur_release)
    /\ pc' = "write_data"
    /\ UNCHANGED <<repo_vars, remote_file, changelog, file_exists, release_in_changelog,
                   cur_release, selected_commits, pos, run, eligible_at_start, written,
                   prev_run, splice_vars>>

final_render_fails ==
    /\ pc = "final"
    /\ Len(selected_commits) > 0 /\ in_list(cur_release, regenerate_releases)
    /\ \E fail_at \in 1..Len(selected_commits), code \in FailureCodes :
          /\ calls' = calls \o content_calls(cur_release, selected_commits, fail_at)
          /\ status_code' = code
    /\ selected_commits' = <<>>
    /\ pc' = "write_data"
    /\ UNCHANGED <<repo_vars, remote_file, object_vars, regenerate_releases, cur_release,
                   pos, run, eligible_at_start, rendered_from, written, prev_run,
                   splice_vars>>

final_skip ==
    /\ pc = "final"
    /\ ~(Len(selected_commits) > 0 /\ in_list(cur_release, regenerate_releases))
    /\ pc' = "write_data"
    /\ UNCHANGED <<repo_vars, remote_file, object_vars, walk_vars, run, calls,
                   eligible_at_start, rendered_from, written, prev_run, splice_vars>>

(***************************************************************************)
(* write_data, lines 405-465                                               *)
(***************************************************************************)
branch == "changelog"

\* lines 456-465
pull_calls ==
    IF pull_request # "" /\ pull_request # branch
    THEN << <<"create_pull", "ok">> >> ELSE <<>>

write_unchanged ==
    UNCHANGED <<repo_vars, object_vars, walk_vars, run, eligible_at_start,
                rendered_from, prev_run, splice_vars>>

\* the file is updated although nothing changed
write_data_same_pushes ==
    /\ pc = "write_data"
    /\ assemble_changelog(releases) = changelog
    /\ calls' = calls \o << <<"update_file", "ok">> >> \o pull_calls
    /\ written' = "written"
    /\ pc' = "done"
    /\ UNCHANGED remote_file
    /\ write_unchanged

\* lines 407-408
write_data_same ==
    /\ pc = "write_data"
    /\ assemble_changelog(releases) = changelog
    /\ written' = "same"
    /\ pc' = "done"
    /\ UNCHANGED <<remote_file, calls>>
    /\ write_unchanged

\* lines 410-420
write_data_update ==
    /\ pc = "write_data"
    /\ assemble_changelog(releases) # changelog
    /\ file_exists
    /\ calls' = calls \o << <<"update_file", "ok">> >> \o pull_calls
    /\ remote_file' = File(assemble_changelog(releases))
    /\ written' = "written"
    /\ pc' = "done"
    /\ write_unchanged

\* lines 421-425
write_data_create ==
    /\ pc = "write_data"
    /\ assemble_changelog(releases) # changelog
    /\ ~file_exists
    /\ calls' = calls \o << <<"create_file", "ok">> >> \o pull_calls
    /\ remote_file' = File(assemble_changelog(releases))
    /\ written' = "written"
    /\ pc' = "done"
    /\ write_unchanged

\* lines 426-449: the branch does not exist; it is created from the pull
\* request's target, where the file may exist
write_data_create_branch ==
    /\ pc = "write_data"
    /\ assemble_changelog(releases) # changelog
    /\ ~file_exists
    /\ pull_request # ""
    /\ \E on_target \in BOOLEAN :
          calls' = calls \o << <<"create_file", "404">>, <<"get_branch", "ok">>,
                               <<"create_git_ref", "ok">> >>
                         \o (IF on_target
                             THEN << <<"get_contents", "ok">>, <<"update_file", "ok">> >>
                             ELSE << <<"get_contents", "404">>, <<"create_file", "ok">> >>)
                         \o pull_calls
    /\ remote_file' = File(assemble_changelog(releases))
    /\ written' = "written"
    /\ pc' = "done"
    /\ write_unchanged

\* lines 418, 424, 450-451: the write raises, and so does write_data
write_data_raises ==
    /\ pc = "write_data"
    /\ assemble_changelog(releases) # changelog
    /\ calls' = Append(calls, <<IF file_exists THEN "update_file" ELSE "create_file",
                                "raised">>)
    /\ written' = "raised"
    /\ pc' = "raised"
    /\ UNCHANGED remote_file
    /\ write_unchanged

(***************************************************************************)
(* main, lines 666-678, run again on the repository as the run left it     *)
(***************************************************************************)
run_again ==
    /\ pc \in {"done", "raised"}
    /\ run < MaxRuns
    /\ run' = run + 1
    /\ prev_run' = [written |-> written, failed |-> status_code # 0]
    /\ changelog' = <<>>
    /\ file_exists' = FALSE
    /\ release_in_changelog' = EmptyDict
    /\ releases' = <<>>
    /\ regenerate_releases' = <<>>
    /\ cur_release' = "Unreleased"
    /\ selected_commits' = <<>>
    /\ pos' = 1
    /\ status_code' = 0
    /\ pc' = "get_exist_changelog"
    /\ calls' = <<>>
    /\ eligible_at_start' = <<>>
    /\ rendered_from' = EmptyDict
    /\ written' = "no"
    /\ UNCHANGED <<repo_vars, remote_file, splice_vars>>

Next ==
    \/ get_exist_changelog
    \/ get_exist_changelog_raises
    \/ get_releases
    \/ walk_append
    \/ walk_boundary_skip
    \/ walk_boundary_render
    \/ walk_boundary_render_fails
    \/ final_render
    \/ final_render_fails
    \/ final_skip
    \/ write_data_same
    \/ write_data_update
    \/ write_data_create
    \/ write_data_create_branch
    \/ write_data_raises

Spec == Init /\ [][Next]_vars

\* two runs in a row, for the claims about a second run
NextTwice == Next \/ run_again

SpecTwice == Init /\ [][NextTwice]_vars

(***************************************************************************)
(* The classification of one commit message: get_release_content lines     *)
(* 349-355 followed by strip_commits for the type 'feat'.                   *)
(***************************************************************************)
SubjectTexts == UNION {[1..n -> {"tha", " "}] : n \in 1..MaxBodyLen}

Prefixes == { <<"feat", "(", "x", ")", ":", " ">>, <<"feat", ":", " ">>,
              <<"fix", ":", " ">> }

Endings == { <<>>, <<"...">> }

Continuations ==
    { <<>>,
      <<NL, NL, "...", "t", " ", "continues">>,
      <<NL, NL, "...", " ", "t">>,
      <<NL, NL, "t">>,
      <<NL, NL, "...", "t", NL, "more">> }

SpliceMessages ==
    {p \o b \o e \o c : p \in Prefixes, b \in SubjectTexts, e \in Endings,
                        c \in Continuations}
    \cup { <<"feat", "(", "x", ")", ":", " ", "very", " ", "long", " ", "subject",
             " ", "tha", "...", NL, NL, "...", "t", " ", "continues">> }

InitSplice ==
    /\ message \in SpliceMessages
    /\ suppress_unscoped \in BOOLEAN
    /\ classified = <<>>
    /\ pc = "classify"
    /\ api_releases = <<>>
    /\ tags_sha = EmptyDict
    /\ remote_file = NoFile
    /\ regenerate_count = 0
    /\ unreleased_commits = FALSE
    /\ pull_request = ""
    /\ changelog = <<>>
    /\ file_exists = FALSE
    /\ release_in_changelog = EmptyDict
    /\ releases = <<>>
    /\ regenerate_releases = <<>>
    /\ cur_release = "Unreleased"
    /\ selected_commits = <<>>
    /\ pos = 1
    /\ status_code = 0
    /\ calls = <<>>
    /\ eligible_at_start = <<>>
    /\ rendered_from = EmptyDict
    /\ written = "no"
    /\ run = 1
    /\ prev_run = [written |-> "no", failed |-> FALSE]

classify ==
    /\ pc = "classify"
    /\ classified' = strip_commits(<<processed([sha |-> "c2", message |-> message])>>,
                                   "feat", default_scope, suppress_unscoped)
    /\ pc' = "classified"
    /\ UNCHANGED <<repo_vars, remote_file, object_vars, walk_vars, run, calls,
                   eligible_at_start, rendered_from, written, prev_run, message>>

NextSplice == classify

SpecSplice == InitSplice /\ [][NextSplice]_vars

(***************************************************************************)
(* Properties.                                                             *)
(***************************************************************************)
\* get_releases has built the list of the releases to regenerate
after_get_releases ==
    pc \in {"walk", "final", "write_data", "done"}
    \/ (pc = "raised" /\ written = "raised")

\* get_data has returned
get_data_returned ==
    pc \in {"write_data", "done"} \/ (pc = "raised" /\ written = "raised")

content_of(tag) == releases[release_at(releases, tag)].content

elements(list) == {list[i] : i \in 1..Len(list)}

commit_shas == shas_of(github_commits)

\* the positions in the commit list of the commits some release's tag points to
boundary_positions ==
    {i \in 1..NumCommits : \E t \in DOMAIN tags_sha : tags_sha[t] = commit_shas[i]}

\* the first boundary position at or after i, one past the list if none
boundary_from(i) ==
    IF \E j \in boundary_positions : j >= i
    THEN CHOOSE j \in boundary_positions :
            j >= i /\ \A k \in boundary_positions : k >= i => j <= k
    ELSE NumCommits + 1

position_of(sha) == CHOOSE i \in 1..NumCommits : commit_shas[i] = sha

expected_bucket(tag) ==
    IF tag = "Unreleased"
    THEN SubSeq(commit_shas, 1, boundary_from(1) - 1)
    ELSE SubSeq(commit_shas, position_of(tags_sha[tag]),
                boundary_from(position_of(tags_sha[tag]) + 1) - 1)

\* C1: a release is rendered from its tag commit followed by the commits
\* listed after it up to the next commit that is some release's tag commit,
\* 'Unreleased' from the commits listed before the first such commit, and no
\* commit is in the list of two rendered releases.
C1_Buckets ==
    /\ \A t \in DOMAIN rendered_from : rendered_from[t] = expected_bucket(t)
    /\ \A t, u \in DOMAIN rendered_from :
          t # u => elements(rendered_from[t]) \cap elements(rendered_from[u]) = {}

\* releases v2 (tag commit c3) and v1 (tag commit c1), commits c4 c3 c2 c1
C1_Witness ==
    /\ pc = "done"
    /\ DOMAIN rendered_from = {"Unreleased", "v2", "v1"}
    /\ rendered_from["Unreleased"] = <<"c4">>
    /\ rendered_from["v2"] = <<"c3", "c2">>
    /\ rendered_from["v1"] = <<"c1">>

\* C2: a release that is not in the list of releases to regenerate as first
\* built is never passed to get_release_content, and when get_data has
\* returned its content is the block parsed for its tag from the existing
\* changelog.
C2_Untouched ==
    after_get_releases =>
      \A i \in 1..Len(api_releases) :
        LET t == api_releases[i].tag_name
        IN  ~in_list(t, eligible_at_start) =>
              /\ ~in_list(<<"get_release_content", t>>, calls)
              /\ get_data_returned =>
                    /\ <<t>> \in DOMAIN release_in_changelog
                    /\ content_of(t) = release_in_changelog[<<t>>]

\* regenerate_count = 1, v1 in the existing changelog: v2 and 'Unreleased'
\* are rendered, v1 keeps its block
C2_Witness ==
    /\ pc = "done"
    /\ regenerate_count = 1
    /\ eligible_at_start = <<"v2", "Unreleased">>
    /\ DOMAIN rendered_from = {"v2", "Unreleased"}
    /\ content_of("v1") = stale_block("v1")

\* C3: after a failed rendering every release that is still to regenerate
\* has the content the existing changelog held for its tag, or none if the
\* changelog had no block for it.
C3_PreviousContentKept ==
    (get_data_returned /\ status_code # 0) =>
      \A i \in 1..Len(regenerate_releases) :
        LET t == regenerate_releases[i]
        IN  content_of(t) = IF <<t>> \in DOMAIN release_in_changelog
                            THEN release_in_changelog[<<t>>] ELSE <<>>

\* C4: the list of releases to regenerate, as first built, holds the first
\* regenerate_count tags (all if negative), the tags the existing changelog
\* has no block for, and 'Unreleased' iff unreleased_commits; no tag twice.
C4_Eligible ==
    after_get_releases =>
      LET recent == {api_releases[i].tag_name :
                       i \in {j \in 1..Len(api_releases) :
                                regenerate_count < 0 \/ j <= regenerate_count}}
          absent == {t \in tag_names(api_releases) :
                       <<t>> \notin DOMAIN release_in_changelog}
          unreleased == IF unreleased_commits THEN {"Unreleased"} ELSE {}
      IN  /\ elements(eligible_at_start) = recent \cup absent \cup unreleased
          /\ Cardinality(elements(eligible_at_start)) = Len(eligible_at_start)

\* regenerate_count = 0, v1 in the existing changelog and v2 not
C4_Witness ==
    /\ after_get_releases
    /\ regenerate_count = 0
    /\ <<"v1">> \in DOMAIN release_in_changelog
    /\ eligible_at_start = <<"v2", "Unreleased">>

\* C5: when a run without rendering failure has written the changelog, the
\* next run without rendering failure over the same repository assembles
\* the document it read, so nothing is written.
C5_Idempotent ==
    (run > 1 /\ pc = "write_data" /\ prev_run.written = "written"
       /\ ~prev_run.failed /\ status_code = 0)
      => assemble_changelog(releases) = changelog

\* C6: parsing the assembled document gives one entry for each tagged
\* release with content, keyed by its tag and equal to its assembled block,
\* and no other entry; the parsed blocks, put back in the same order (with
\* the 'Unreleased' block as it is), assemble to the same document.
C6_RoundTrip ==
    pc = "write_data" =>
      LET doc == assemble_changelog(releases)
          parsed == analyze_changelog(doc, EmptyDict)
          tagged == {i \in 1..Len(releases) :
                       releases[i].tag # "Unreleased" /\ releases[i].content # <<>>}
          reparsed == [i \in 1..Len(releases) |->
                         IF releases[i].tag = "Unreleased" THEN releases[i]
                         ELSE [releases[i] EXCEPT !.content =
                                 IF <<releases[i].tag>> \in DOMAIN parsed
                                 THEN parsed[<<releases[i].tag>>] ELSE <<>>]]
      IN  /\ DOMAIN parsed = {<<releases[i].tag>> : i \in tagged}
          /\ \A i \in tagged : parsed[<<releases[i].tag>>] = strip(releases[i].content)
          /\ assemble_changelog(reparsed) = doc

commit_of(sha) == github_commits[position_of(sha)]

\* no commit of the list matches a configured type
no_commit_matches(shas) ==
    generate_release_body([i \in 1..Len(shas) |-> processed(commit_of(shas[i]))],
                          part_name, default_scope, suppress_unscoped) = <<>>

header_of(tag) ==
    IF tag = "Unreleased" THEN <<"H2", "Unreleased">> ELSE <<"H2", "[", tag, "]">>

\* C7: a rendered release with an empty description and no commit of a
\* configured type has no content, and the assembled document has no header
\* for it.
C7_EmptyOmitted ==
    pc = "write_data" =>
      \A i \in 1..Len(releases) :
        LET r == releases[i]
        IN  (r.tag \in DOMAIN rendered_from /\ r.body = <<>>
               /\ no_commit_matches(rendered_from[r.tag]))
              => /\ r.content = <<>>
                 /\ find(assemble_changelog(releases), header_of(r.tag), 1) = 0

\* the first paragraph ends with an ellipsis and the second begins with one
truncated(msg) ==
    LET paragraphs == split(msg, <<NL, NL>>)
    IN  /\ Len(paragraphs) > 1
        /\ LastN(paragraphs[1], 1) = <<"...">>
        /\ startswith(paragraphs[2], <<"...">>)

\* C8: for a truncated message the head that is classified is the first
\* paragraph without its ellipsis joined to the first line of the
\* continuation without its ellipsis, with single blanks, and the subject is
\* that head without the 'type(scope):' prefix.
C8_Rejoined ==
    (pc = "classified" /\ truncated(message) /\ classified # <<>>) =>
      LET paragraphs == split(message, <<NL, NL>>)
          rejoined == sub_double_space(
                          DropLast(paragraphs[1], 1)
                          \o DropFirst(split(paragraphs[2], <<NL>>)[1], 1))
      IN  /\ classified[1].items[1].commit.head = rejoined
          /\ classified[1].items[1].subject = subject_of(rejoined)

malformed(doc) ==
    /\ doc # <<>>
    /\ ~(startswith(doc, BEGIN_CHANGELOG_TITLE)
         /\ endswith(doc, END_CHANGELOG_SIGNATURE \o <<NL>>))

\* the texts of the blocks of the changelogs that exist before the first run
OldTexts == {"old text", "old unreleased", "handwritten part"}

\* C9: when the existing changelog is not empty and lacks the title at the
\* start or the signature line at the end, nothing is parsed from it, every
\* release is to be regenerated, and no release has content other than what
\* this run rendered, so that no text of the old changelog is in the
\* assembled document.
C9_MalformedIsAbsent ==
    (pc # "get_exist_changelog" /\ file_exists /\ malformed(changelog)) =>
      /\ DOMAIN release_in_changelog = {}
      /\ after_get_releases =>
            tag_names(api_releases) \subseteq elements(eligible_at_start)
      /\ get_data_returned =>
            /\ \A i \in 1..Len(releases) :
                  releases[i].content = <<>> \/ releases[i].tag \in DOMAIN rendered_from
            /\ elements(assemble_changelog(releases)) \cap OldTexts = {}

\* a changelog with the title and without the signature, two releases
C9_Witness ==
    /\ pc = "done"
    /\ written = "written"
    /\ file_exists
    /\ malformed(changelog)
    /\ startswith(changelog, BEGIN_CHANGELOG_TITLE)
    /\ elements(changelog) \cap OldTexts # {}
    /\ DOMAIN rendered_from = {"v2", "v1"}

positions(op) == {i \in 1..Len(calls) : calls[i][1] = op}

render_positions == positions("get_release_content") \cup positions("get_pulls")

write_positions ==
    positions("create_file") \cup positions("update_file")
      \cup positions("create_git_ref") \cup positions("create_pull")

\* the calls that wrote the file
written_positions ==
    {i \in positions("create_file") \cup positions("update_file") : calls[i][2] = "ok"}

\* C10 as stated: the file is asked for once, before any rendering; it is
\* written at most once, after all rendering; and nothing is created or
\* updated when the assembled document is the one that was read.
C10_ReadOnceWriteOnce ==
    /\ Cardinality(positions("get_contents")) <= 1
    /\ \A i \in positions("get_contents"), j \in render_positions : i < j
    /\ Cardinality(written_positions) <= 1
    /\ \A i \in write_positions, j \in render_positions : j < i
    /\ (pc = "done" /\ assemble_changelog(releases) = changelog) => write_positions = {}

\* C10, amended: the changelog is read by the first call of the run, before
\* any rendering; the file is asked for again only right after write_data
\* created the branch, when all rendering is over; it is written at most
\* once, after all rendering; and nothing is created or updated when the
\* assembled document is the one that was read.
C10_ReadThenWrite ==
    /\ pc # "get_exist_changelog" => calls[1] = <<"get_contents", "">>
    /\ \A i \in positions("get_contents") :
          \/ i = 1
          \/ /\ calls[i - 1] = <<"create_git_ref", "ok">>
             /\ \A j \in render_positions : j < i
    /\ \A j \in render_positions : 1 < j
    /\ Cardinality(written_positions) <= 1
    /\ \A i \in write_positions, j \in render_positions : j < i
    /\ (pc = "done" /\ assemble_changelog(releases) = changelog) => write_positions = {}

\* the branch is created and the file found on it, after two renderings
C10_Witness ==
    /\ pc = "done"
    /\ Cardinality(positions("get_contents")) = 2
    /\ Cardinality(positions("get_release_content")) = 2
    /\ Cardinality(written_positions) = 1

\* a rendering has failed in this run
render_failed == status_code # 0

commits_of(shas) == [i \in 1..Len(shas) |-> commit_of(shas[i])]

\* what get_release_content gives for the commits the release was rendered from
rendered_content(tag) ==
    get_release_content(releases, tag, commits_of(rendered_from[tag]), suppress_unscoped)

\* the calls this step adds to the calls of the run
new_calls == SubSeq(calls', Len(calls) + 1, Len(calls'))

\* this step calls neither get_release_content nor get_pulls
no_new_rendering ==
    \A i \in 1..Len(new_calls) :
       new_calls[i][1] \notin {"get_release_content", "get_pulls"}

\* C11: once a rendering has failed, get_release_content is not called again
\* in the run (nor is any pull request resolved), the contents of the
\* releases stay as they are, get_data has not raised and the step after its
\* last check is write_data; and when get_data has returned, every release
\* rendered before the failure has the content it was rendered to.
C11_PartialSuccess ==
    /\ [](render_failed =>
             /\ pc \in {"final", "write_data", "done"}
                  \/ (pc = "raised" /\ written = "raised")
             /\ pc = "write_data" =>
                   \A t \in DOMAIN rendered_from : content_of(t) = rendered_content(t))
    /\ [][render_failed =>
             /\ render_failed'
             /\ no_new_rendering
             /\ rendered_from' = rendered_from
             /\ releases' = releases
             /\ pc = "final" => pc' = "write_data"]_vars

\* 'Unreleased' is rendered, the rendering of the next release fails, and the
\* changelog is written
C11_Witness ==
    /\ pc = "done"
    /\ render_failed
    /\ written = "written"
    /\ "Unreleased" \in DOMAIN rendered_from
    /\ Len(regenerate_releases) > 0

\* the place in the commit list of the commit that closes the bucket of the
\* release, one past the list if the bucket is the last one
bucket_end(tag) ==
    IF tag = "Unreleased" THEN boundary_from(1)
    ELSE boundary_from(position_of(tags_sha[tag]) + 1)

\* the release of the last get_release_content call among the first i calls
RECURSIVE rendering_at(_)
rendering_at(i) ==
    IF calls[i][1] = "get_release_content" THEN calls[i][2] ELSE rendering_at(i - 1)

\* C12: once the list of releases to regenerate is empty, get_data takes no
\* further commit of the commit list and renders nothing more: the walk has
\* stopped at the commit that closed the bucket rendered last; if the list
\* is empty as first built, no commit is taken at all; and a step that calls
\* get_pulls does so for commits of the bucket of the current release, which
\* is in the list as first built and is still in the list.
C12_EarlyStop ==
    /\ [][(after_get_releases /\ regenerate_releases = <<>>) =>
             /\ pos' = pos
             /\ no_new_rendering]_vars
    /\ []((after_get_releases /\ regenerate_releases = <<>>) =>
             IF eligible_at_start = <<>>
             THEN /\ pos = 1
                  /\ selected_commits = <<>>
                  /\ render_positions = {}
             ELSE pos = bucket_end(rendering_at(Len(calls))))
    /\ [][\A i \in 1..Len(new_calls) :
             new_calls[i][1] = "get_pulls" =>
               /\ in_list(cur_release, eligible_at_start)
               /\ in_list(cur_release, regenerate_releases)
               /\ new_calls[1] = <<"get_release_content", cur_release>>
               /\ in_list(new_calls[i][2], expected_bucket(cur_release))]_vars

\* only 'Unreleased' is to be rendered: the walk stops at the second commit,
\* the first tag commit, and the two commits after it are never taken
C12_Witness ==
    /\ pc = "done"
    /\ eligible_at_start = <<"Unreleased">>
    /\ regenerate_releases = <<>>
    /\ pos = 2
    /\ {calls[i][2] : i \in positions("get_pulls")} = {"c4"}

\* the releases whose tag is gone
deleted_tags == tag_names(api_releases) \ DOMAIN tags_sha

\* C13: a release whose tag is gone is never the current release and no step
\* passes it to get_release_content; the bucket that is open starts at the
\* tag commit of the current release (no commit of it is a tag commit when
\* the current release is 'Unreleased'); and each rendered release was
\* rendered from all the commits from its tag commit (the first commit for
\* 'Unreleased') up to the next commit that some release's tag points to, so
\* that the commits of a release whose tag is gone are in the bucket of the
\* release before it.
C13_DeletedTag ==
    /\ [](\A t \in deleted_tags : cur_release # t /\ t \notin DOMAIN rendered_from)
    /\ [][\A i \in 1..Len(new_calls) :
             new_calls[i][1] = "get_release_content" => new_calls[i][2] \notin deleted_tags]_vars
    /\ []((deleted_tags # {} /\ selected_commits # <<>>) =>
             IF cur_release = "Unreleased"
             THEN \A i \in 1..Len(selected_commits) :
                     selected_commits[i].sha \notin {tags_sha[t] : t \in DOMAIN tags_sha}
             ELSE /\ cur_release \in DOMAIN tags_sha
                  /\ selected_commits[1].sha = tags_sha[cur_release]
                  /\ \A i \in 2..Len(selected_commits) :
                        selected_commits[i].sha \notin {tags_sha[t] : t \in DOMAIN tags_sha})
    /\ [](deleted_tags # {} =>
             \A t \in DOMAIN rendered_from :
                /\ t \in DOMAIN tags_sha \cup {"Unreleased"}
                /\ rendered_from[t] = expected_bucket(t))

\* the tag of v2 is gone and the tag of v1 points to c2: 'Unreleased' is
\* rendered from c4 and c3, v1 from c2 and c1, and v2 is left to regenerate
C13_Witness ==
    /\ pc = "done"
    /\ deleted_tags = {"v2"}
    /\ DOMAIN rendered_from = {"Unreleased", "v1"}
    /\ rendered_from["Unreleased"] = <<"c4", "c3">>
    /\ rendered_from["v1"] = <<"c2", "c1">>
    /\ regenerate_releases = <<"v2">>
    /\ content_of("v2") = <<>>

\* no two releases have tags that point to the same commit
distinct_tag_commits ==
    \A t, u \in DOMAIN tags_sha : t # u => tags_sha[t] # tags_sha[u]

\* how many times get_release_content was called for the release
times_rendered(tag) ==
    Cardinality({i \in 1..Len(calls) : calls[i] = <<"get_release_content", tag>>})

\* C14: a step that renders a release renders the current release, which is
\* in the list of the releases to regenerate and, unless the rendering
\* fails, is not in it after the step and has the content rendered from its
\* bucket. When get_data returns after no rendering has failed, no two tags
\* pointing to the same commit (the commit list has no SHA twice), every
\* release of the list as first built whose tag points to a commit of the
\* commit list, and 'Unreleased' if it is in that list, was passed to
\* get_release_content exactly once, has been rendered and is no longer in
\* the list; and when the commits were exhausted and the current release was
\* in the list as first built, it was rendered last, from a bucket that ends
\* with the last commit.
C14_RenderedOnce ==
    /\ [][(new_calls # <<>> /\ new_calls[1][1] = "get_release_content") =>
             /\ new_calls[1][2] = cur_release
             /\ in_list(cur_release, regenerate_releases)
             /\ ~render_failed' =>
                   /\ ~in_list(cur_release, regenerate_releases')
                   /\ rendered_from'[cur_release] = shas_of(selected_commits)
                   /\ releases'[release_at(releases, cur_release)].content
                         = get_release_content(releases, cur_release, selected_commits,
                                               suppress_unscoped)]_vars
    /\ []((pc = "write_data" /\ ~render_failed /\ distinct_tag_commits) =>
             /\ \A i \in 1..Len(eligible_at_start) :
                   LET t == eligible_at_start[i]
                   IN  (t = "Unreleased"
                          \/ (t \in DOMAIN tags_sha /\ in_list(tags_sha[t], commit_shas))) =>
                         /\ times_rendered(t) = 1
                         /\ t \in DOMAIN rendered_from
                         /\ ~in_list(t, regenerate_releases)
             /\ (pos = NumCommits + 1 /\ in_list(cur_release, eligible_at_start)) =>
                   /\ rendering_at(Len(calls)) = cur_release
                   /\ rendered_from[cur_release] # <<>>
                   /\ rendered_from[cur_release][Len(rendered_from[cur_release])]
                         = commit_shas[NumCommits])

\* v2 (tag commit c3), v1 (tag commit c2) and 'Unreleased' are all rendered,
\* v1 after the last commit
C14_Witness ==
    /\ pc = "write_data"
    /\ ~render_failed
    /\ distinct_tag_commits
    /\ eligible_at_start = <<"v2", "v1", "Unreleased">>
    /\ regenerate_releases = <<>>
    /\ pos = NumCommits + 1
    /\ cur_release = "v1"
    /\ rendered_from["v1"] = <<"c2", "c1">>
    /\ times_rendered("v1") = 1 /\ times_rendered("v2") = 1
    /\ times_rendered("Unreleased") = 1

\* the tag points to the commit that the tag of a release listed later
\* points to as well
shadowed(tag) ==
    /\ tag \in DOMAIN tags_sha
    /\ \E i, j \in 1..Len(api_releases) :
          /\ i < j
          /\ api_releases[i].tag_name = tag
          /\ api_releases[j].tag_name \in DOMAIN tags_sha
          /\ tags_sha[api_releases[j].tag_name] = tags_sha[tag]

\* C15: when the tags of several releases point to the same commit, a step
\* that takes that commit makes the release listed last the current release;
\* the others are never the current release and are never rendered, and one
\* of them that is in the list of the releases to regenerate as first built
\* stays in the list with empty content, so that the document assembled when
\* get_data has returned has no header for it.
C15_SharedTagCommit ==
    /\ [][(pc = "walk" /\ cur_release' # cur_release) =>
             /\ cur_release' \in DOMAIN tags_sha
             /\ tags_sha[cur_release'] = github_commits[pos].sha
             /\ ~shadowed(cur_release')]_vars
    /\ [](\A t \in DOMAIN tags_sha :
             shadowed(t) =>
               /\ cur_release # t
               /\ t \notin DOMAIN rendered_from
               /\ (after_get_releases /\ in_list(t, eligible_at_start)) =>
                     /\ content_of(t) = <<>>
                     /\ in_list(t, regenerate_releases)
                     /\ pc = "write_data" =>
                           /\ ~in_list(<<"get_release_content", t>>, calls)
                           /\ find(assemble_changelog(releases), header_of(t), 1) = 0)

\* the tags of v2 and v1 both point to c3, both releases are to regenerate:
\* v1 is rendered from c3, c2 and c1, v2 is not and has no content
C15_Witness ==
    /\ pc = "write_data"
    /\ DOMAIN tags_sha = {"v1", "v2"}
    /\ tags_sha["v1"] = "c3" /\ tags_sha["v2"] = "c3"
    /\ eligible_at_start = <<"v2", "v1">>
    /\ regenerate_releases = <<"v2">>
    /\ rendered_from["v1"] = <<"c3", "c2", "c1">>
    /\ content_of("v1") # <<>>
    /\ content_of("v2") = <<>>

====
